---- MODULE Spec2Model ----
(***************************************************************************)
(* A model of the lock_file program (src/lock_file.c, and its second copy  *)
(* src/unnamed/part_000): a shell script invokes the program to lock or to *)
(* unlock one target file.  A lock invocation forks; the child (the        *)
(* LockHolder) opens and locks the file, writes its pid into it, signals   *)
(* the parent (the Coordinator) and idles until the script is gone or it   *)
(* is signalled.  An unlock invocation reads the pid from the file and     *)
(* signals that process until the signal cannot be sent any more.          *)
(*                                                                         *)
(* Processes are interleaved one statement (one system call) at a time.    *)
(* Signals are pending bits per process, delivered at any later moment.    *)
(* The advisory lock is one lock on the target file with one owner.        *)
(***************************************************************************)
EXTENDS Integers, Sequences, FiniteSets, TLC

(***************************************************************************)
(* Bounds of the model.                                                    *)
(***************************************************************************)
\* The number of times the script invokes the program, with any requests;
\* the round-trip script (lock, unlock, lock, ...) makes one request more.
MaxInv == 2
\* The largest value given with -t / --timeout.
MaxTimeout == 1

(***************************************************************************)
(* Program constants.                                                      *)
(***************************************************************************)
SIGUSR1 == "SIGUSR1"
SIGUSR2 == "SIGUSR2"
PARENT_TO == SIGUSR1
CHILD_OK == SIGUSR1
CHILD_FAIL == SIGUSR2
UNLOCK == SIGUSR2
Signals == {SIGUSR1, SIGUSR2}

MAX_PID_LEN == 10
\* unlock_file: timeout = timeout * 10
TimeoutMult == 10

\* The two copies of the program (1: lock_file.c, 2: the second copy); they
\* differ in main's option handling.
Versions == {1, 2}

(***************************************************************************)
(* Process ids.  Pids are not reused within a run.                         *)
(***************************************************************************)
Invs == 1 .. (MaxInv + 1)
NoPid == 0
InitPid == NoPid + 1
ScriptPid == 40 + 1
\* A process of another user that may hold the lock from the start.
CompPid == 40 + 2
\* A pid that names no process: what a holder of long ago left in the file.
StalePid == 90 + 7
PPid(i) == 100 + (2 * i)
CPid(i) == 101 + (2 * i)
MainPids == {PPid(i) : i \in Invs}
ChildPids == {CPid(i) : i \in Invs}
Procs == {ScriptPid} \cup MainPids \cup ChildPids
InvOf(p) == CHOOSE i \in Invs : p \in {PPid(i), CPid(i)}

Min(a, b) == IF a < b THEN a ELSE b

(***************************************************************************)
(* Text: a string of the program is a sequence of one-character strings.   *)
(***************************************************************************)
DigitChars == <<"0", "1", "2", "3", "4", "5", "6", "7", "8", "9">>
IsDigit(c) == \E d \in 1 .. 10 : DigitChars[d] = c
DigitVal(c) == (CHOOSE d \in 1 .. 10 : DigitChars[d] = c) - 1
IsSpace(c) == c \in {" ", "\n", "\t"}

RECURSIVE Dec(_)
\* printf's %i of a number >= 0
Dec(n) == IF n < 10 THEN <<DigitChars[n + 1]>>
          ELSE Append(Dec(n \div 10), DigitChars[(n % 10) + 1])

\* snprintf(buf, size, "%i", n): at most size-1 characters are stored.
snprintf_i(size, n) ==
    LET s == IF n < 0 THEN <<"-">> \o Dec(0 - n) ELSE Dec(n)
    IN  SubSeq(s, 1, Min(Len(s), size - 1))

RECURSIVE SkipSpace(_, _)
SkipSpace(buf, k) ==
    IF k <= Len(buf) /\ IsSpace(buf[k]) THEN SkipSpace(buf, k + 1) ELSE k

RECURSIVE Digits(_, _, _)
\* the digits from position k on: [val, end] with end the first position not used
Digits(buf, k, acc) ==
    IF k <= Len(buf) /\ IsDigit(buf[k])
    THEN Digits(buf, k + 1, (acc * 10) + DigitVal(buf[k]))
    ELSE [val |-> acc, end |-> k]

\* strtol(buf, &end, 10): leading white space, an optional sign, digits.
\* With no digits the value is 0 and end is the start of the string.
strtol(buf) ==
    LET a == SkipSpace(buf, 1)
        neg == a <= Len(buf) /\ buf[a] = "-"
        sgn == a <= Len(buf) /\ buf[a] \in {"-", "+"}
        b == IF sgn THEN a + 1 ELSE a
        r == Digits(buf, b, 0)
    IN  IF r.end = b THEN [val |-> 0, end |-> 1]
        ELSE [val |-> IF neg THEN 0 - r.val ELSE r.val, end |-> r.end]

\* read(fd, pid_str, MAX_PID_LEN) of a file just opened
ReadPidStr(content) == SubSeq(content, 1, Min(Len(content), MAX_PID_LEN))

\* unlock_file's reading of the pid: 0 when nothing was read or when the
\* character after the number is neither the end of the data nor a newline.
ParsePid(content) ==
    LET buf == ReadPidStr(content)
        r == strtol(buf)
    IN  IF Len(buf) = 0 THEN 0
        ELSE IF r.end <= Len(buf) /\ buf[r.end] # "\n" THEN 0
        ELSE r.val

(***************************************************************************)
(* The state.                                                              *)
(***************************************************************************)
VARIABLES
    st,     \* per process: "none", "run", "exit0", "exit1", "killed"
    pend,   \* per process: the signals pending for it
    file,   \* the target file: NoFile, or its contents
    lock,   \* the pid that owns the advisory lock on the file, or NoPid
    main,   \* per invocation: main() and what it calls in the first process
    kid     \* per invocation: child_loop() in the forked process

vars == <<st, pend, file, lock, main, kid>>

NoFile == <<"?">>
\* What the target file may hold before the first invocation.
InitFiles == {NoFile, <<>>, snprintf_i(MAX_PID_LEN, StalePid)}

Alive(p) == p \in Procs /\ st[p] = "run"

\* The timeout option as given on the command line.
NoOpt == [given |-> FALSE, val |-> 0]
TOpts == {NoOpt} \cup {[given |-> TRUE, val |-> v] : v \in 0 .. MaxTimeout}

\* main's variables, with the copy of the program that runs (ver) and the
\* timeout option as given (argv) for as long as the code reads them.
NoMain == [pc |-> "none", ver |-> 0, argv |-> NoOpt, unlock |-> FALSE,
           no_block |-> FALSE, timeout |-> 0, time |-> 0, cpid |-> 0, ppid |-> 0,
           pid |-> 0, locked |-> 0]
NoKid == [pc |-> "none", child |-> FALSE, ppid |-> 0, script_pid |-> 0]

\* What is left of a process that has ended: its exit status (st) and, for
\* the first process of an invocation, whether it was a lock or an unlock
\* and what the unlock had found (the lock test, the pid read).
MainDone(m) == [NoMain EXCEPT !.pc = "done", !.unlock = m.unlock,
                                !.locked = m.locked, !.pid = m.pid]
KidDone == [NoKid EXCEPT !.pc = "done"]

Init ==
    /\ st = [p \in Procs |-> IF p = ScriptPid THEN "run" ELSE "none"]
    /\ pend = [p \in Procs |-> {}]
    /\ file \in InitFiles
    /\ lock \in {NoPid, CompPid}
    /\ lock = CompPid => file # NoFile
    /\ main = [i \in Invs |-> NoMain]
    /\ kid = [i \in Invs |-> NoKid]

(***************************************************************************)
(* The operating system.                                                   *)
(***************************************************************************)
\* The processes kill(pid, sig) reaches: pid -1 is every process the sender
\* may signal but itself; a pid that names no live process reaches none.
KillTargets(sender, pid) ==
    IF pid = 0 - 1 THEN {p \in Procs : Alive(p) /\ p # sender}
    ELSE IF Alive(pid) THEN {pid}
    ELSE {}

\* kill(pid, sig) == 0
KillOK(sender, pid) == KillTargets(sender, pid) # {}

\* pend after kill(pid, sig)
PendAfterKill(sender, pid, sig) ==
    [p \in Procs |-> IF p \in KillTargets(sender, pid) THEN pend[p] \cup {sig}
                     ELSE pend[p]]

\* A process ends: its locks are released, its pending signals dropped.
StAfterExit(p, how) == [st EXCEPT ![p] = how]
LockAfterExit(p) == IF lock = p THEN NoPid ELSE lock
PendAfterExit(pd, p) == [pd EXCEPT ![p] = {}]

ExitCode(n) == IF n = 0 THEN "exit0" ELSE "exit1"

(***************************************************************************)
(* The script and the competing process.                                   *)
(***************************************************************************)
\* The script runs the program once more, when its last run has returned:
\* lock or unlock, with its options.
Run(i, v, u, nb, t) ==
    /\ Alive(ScriptPid)
    /\ main[i].pc = "none"
    /\ IF i = 1 THEN TRUE ELSE main[i - 1].pc = "done"
    /\ main' = [main EXCEPT ![i] = [NoMain EXCEPT !.pc = "args", !.ver = v,
                                       !.argv = t, !.unlock = u, !.no_block = nb]]
    /\ st' = [st EXCEPT ![PPid(i)] = "run"]
    /\ UNCHANGED <<pend, file, lock, kid>>

\* A script of any requests.
Exec(i, v, u, nb, t) == i <= MaxInv /\ Run(i, v, u, nb, t)

\* The round-trip script: lock, unlock, lock, ...
ExecRoundTrip(i, v, nb, t) == Run(i, v, i % 2 = 0, nb, t)

\* The script ends.
ScriptExit ==
    /\ Alive(ScriptPid)
    /\ st' = StAfterExit(ScriptPid, "exit0")
    /\ pend' = PendAfterExit(pend, ScriptPid)
    /\ UNCHANGED <<file, lock, main, kid>>

\* The competing process releases the lock it held from the start.
CompRelease ==
    /\ lock = CompPid
    /\ lock' = NoPid
    /\ UNCHANGED <<st, pend, file, main, kid>>

(***************************************************************************)
(* main: the options.                                                      *)
(***************************************************************************)
\* timeout as main declares it, before the options are read
InitialTimeout(v) == IF v = 1 THEN 0 - 1 ELSE 0

\* main's handling of -t and -n: whether the request is accepted, and the
\* timeout it then carries.
ParseArgs(v, nb, t) ==
    LET timeout == IF t.given THEN t.val ELSE InitialTimeout(v)
    IN  IF nb /\ timeout >= 0
        THEN [ok |-> FALSE, timeout |-> timeout]
        ELSE [ok |-> TRUE, timeout |-> IF timeout = 0 - 1 THEN 0 ELSE timeout]

\* main up to the fork or the call of unlock_file.  A lock request installs
\* the handler of both signals before it forks.
MainArgs(i) ==
    /\ main[i].pc = "args"
    /\ Alive(PPid(i))
    /\ LET r == ParseArgs(main[i].ver, main[i].no_block, main[i].argv)
       IN  IF ~r.ok
           THEN /\ main' = [main EXCEPT ![i] = MainDone(@)]
                /\ st' = StAfterExit(PPid(i), ExitCode(1))
                /\ pend' = PendAfterExit(pend, PPid(i))
           ELSE /\ main' = [main EXCEPT ![i].pc = IF main[i].unlock THEN "u_open"
                                                   ELSE "fork",
                               ![i].argv = NoOpt,
                               ![i].ver = IF main[i].unlock THEN @ ELSE 0,
                               ![i].timeout = r.timeout]
                /\ UNCHANGED <<st, pend>>
    /\ UNCHANGED <<file, lock, kid>>

\* getpid, getppid, fork.  An orphan's parent is init.
Fork(i) ==
    /\ main[i].pc = "fork"
    /\ Alive(PPid(i))
    /\ LET ppid == IF Alive(ScriptPid) THEN ScriptPid ELSE InitPid
       IN  \/ /\ main' = [main EXCEPT ![i].pc = "loop", ![i].ppid = ppid,
                             ![i].cpid = CPid(i)]
              /\ kid' = [kid EXCEPT ![i] = [NoKid EXCEPT !.pc = "start",
                             !.ppid = PPid(i), !.script_pid = ppid]]
              /\ st' = [st EXCEPT ![CPid(i)] = "run"]
           \/ /\ main' = [main EXCEPT ![i].pc = "loop", ![i].ppid = ppid,
                             ![i].cpid = 0 - 1]
              /\ UNCHANGED <<kid, st>>
    /\ UNCHANGED <<pend, file, lock>>

(***************************************************************************)
(* parent_loop.                                                            *)
(***************************************************************************)
\* while (timeout == 0 || time++ < timeout) sleep(1): one more tick
ParentTick(i) ==
    /\ main[i].pc = "loop"
    /\ Alive(PPid(i))
    /\ main[i].timeout = 0 \/ main[i].time < main[i].timeout
    /\ main' = [main EXCEPT ![i].time = IF main[i].timeout = 0 THEN @ ELSE @ + 1]
    /\ UNCHANGED <<st, pend, file, lock, kid>>

\* ParentTimeout with the loop's test of timeout == 0 left out.
ParentTimeoutNoZero(i) ==
    /\ main[i].pc = "loop"
    /\ Alive(PPid(i))
    /\ ~(main[i].time < main[i].timeout)
    /\ main' = [main EXCEPT ![i].pc = "ret", ![i].time = @ + 1]
    /\ pend' = PendAfterKill(PPid(i), main[i].cpid, SIGUSR1)
    /\ UNCHANGED <<st, file, lock, kid>>

\* the loop ends: kill(cpid, SIGUSR1)
ParentTimeout(i) ==
    /\ main[i].pc = "loop"
    /\ Alive(PPid(i))
    /\ ~(main[i].timeout = 0 \/ main[i].time < main[i].timeout)
    /\ main' = [main EXCEPT ![i].pc = "ret", ![i].time = @ + 1]
    /\ pend' = PendAfterKill(PPid(i), main[i].cpid, SIGUSR1)
    /\ UNCHANGED <<st, file, lock, kid>>

\* what parent_loop returns
ParentLoopResult == 0

\* return 0, which main returns
ParentReturn(i) ==
    /\ main[i].pc = "ret"
    /\ Alive(PPid(i))
    /\ main' = [main EXCEPT ![i] = MainDone(@)]
    /\ st' = StAfterExit(PPid(i), ExitCode(ParentLoopResult))
    /\ pend' = PendAfterExit(pend, PPid(i))
    /\ UNCHANGED <<file, lock, kid>>

(***************************************************************************)
(* child_loop.                                                             *)
(***************************************************************************)
\* child = 1
ChildSetFlag(i) ==
    /\ kid[i].pc = "start"
    /\ Alive(CPid(i))
    /\ kid' = [kid EXCEPT ![i].pc = "open", ![i].child = TRUE]
    /\ UNCHANGED <<st, pend, file, lock, main>>

\* ChildOpen with O_TRUNC among the flags of open.
ChildOpenTrunc(i) ==
    /\ kid[i].pc = "open"
    /\ Alive(CPid(i))
    /\ \/ /\ kid' = [kid EXCEPT ![i].pc = "lock"]
          /\ file' = <<>>
          /\ UNCHANGED pend
       \/ /\ kid' = [kid EXCEPT ![i].pc = "ret"]
          /\ pend' = PendAfterKill(CPid(i), kid[i].ppid, SIGUSR2)
          /\ UNCHANGED file
    /\ UNCHANGED <<st, lock, main>>

\* open(filename, O_CREAT | O_RDWR, 0700); on failure kill(ppid, SIGUSR2)
ChildOpen(i) ==
    /\ kid[i].pc = "open"
    /\ Alive(CPid(i))
    /\ \/ /\ kid' = [kid EXCEPT ![i].pc = "lock"]
          /\ file' = IF file = NoFile THEN <<>> ELSE file
          /\ UNCHANGED pend
       \/ /\ kid' = [kid EXCEPT ![i].pc = "ret"]
          /\ pend' = PendAfterKill(CPid(i), kid[i].ppid, SIGUSR2)
          /\ UNCHANGED file
    /\ UNCHANGED <<st, lock, main>>

\* lockf(fd, no_block ? F_TLOCK : F_LOCK, 0) == -1
LockFails(p, no_block) == no_block /\ lock \notin {NoPid, p}

\* ChildLock with SIGUSR1 sent where the lock has failed.
ChildLockWrongSignal(i) ==
    /\ kid[i].pc = "lock"
    /\ Alive(CPid(i))
    /\ IF LockFails(CPid(i), main[i].no_block)
       THEN /\ kid' = [kid EXCEPT ![i].pc = "ret"]
            /\ pend' = PendAfterKill(CPid(i), kid[i].ppid, SIGUSR1)
            /\ UNCHANGED lock
       ELSE /\ lock \in {NoPid, CPid(i)}
            /\ lock' = CPid(i)
            /\ kid' = [kid EXCEPT ![i].pc = "trunc"]
            /\ UNCHANGED pend
    /\ UNCHANGED <<st, file, main>>

\* lockf: the lock is taken when it is free; F_LOCK waits while it is not,
\* F_TLOCK fails, and then kill(ppid, SIGUSR2).
ChildLock(i) ==
    /\ kid[i].pc = "lock"
    /\ Alive(CPid(i))
    /\ IF LockFails(CPid(i), main[i].no_block)
       THEN /\ kid' = [kid EXCEPT ![i].pc = "ret"]
            /\ pend' = PendAfterKill(CPid(i), kid[i].ppid, SIGUSR2)
            /\ UNCHANGED lock
       ELSE /\ lock \in {NoPid, CPid(i)}
            /\ lock' = CPid(i)
            /\ kid' = [kid EXCEPT ![i].pc = "trunc"]
            /\ UNCHANGED pend
    /\ UNCHANGED <<st, file, main>>

\* what the child writes into the file
PidText(pid) == snprintf_i(MAX_PID_LEN, pid)

\* lseek(fd, 0, SEEK_SET); ftruncate(fd, 0)
ChildTruncate(i) ==
    /\ kid[i].pc = "trunc"
    /\ Alive(CPid(i))
    /\ file' = <<>>
    /\ kid' = [kid EXCEPT ![i].pc = "write"]
    /\ UNCHANGED <<st, pend, lock, main>>

\* snprintf; write(fd, pid_str, strlen(pid_str)) at offset 0
ChildWrite(i) ==
    /\ kid[i].pc = "write"
    /\ Alive(CPid(i))
    /\ file' = PidText(CPid(i)) \o SubSeq(file, Len(PidText(CPid(i))) + 1, Len(file))
    /\ kid' = [kid EXCEPT ![i].pc = "sigok"]
    /\ UNCHANGED <<st, pend, lock, main>>

\* kill(ppid, SIGUSR1)
ChildSignalOK(i) ==
    /\ kid[i].pc = "sigok"
    /\ Alive(CPid(i))
    /\ pend' = PendAfterKill(CPid(i), kid[i].ppid, SIGUSR1)
    /\ kid' = [kid EXCEPT ![i].pc = "probe"]
    /\ UNCHANGED <<st, file, lock, main>>

\* ProbeOK with the result of kill not looked at.
ProbeIgnoresResult(pid) == TRUE

\* kill(script_pid, 0) == 0
ProbeOK(pid) == Alive(pid)

\* while (kill(script_pid, 0) == 0)
ChildProbe(i) ==
    /\ kid[i].pc = "probe"
    /\ Alive(CPid(i))
    /\ kid' = [kid EXCEPT ![i].pc = IF ProbeOK(kid[i].script_pid) THEN "sleep"
                                    ELSE "ret"]
    /\ UNCHANGED <<st, pend, file, lock, main>>

\* sleep(1)
ChildSleep(i) ==
    /\ kid[i].pc = "sleep"
    /\ Alive(CPid(i))
    /\ kid' = [kid EXCEPT ![i].pc = "probe"]
    /\ UNCHANGED <<st, pend, file, lock, main>>

\* what child_loop returns, on each of its ways out
ChildLoopResult == 1

\* return 1, which main returns
ChildReturn(i) ==
    /\ kid[i].pc = "ret"
    /\ Alive(CPid(i))
    /\ kid' = [kid EXCEPT ![i] = KidDone]
    /\ st' = StAfterExit(CPid(i), ExitCode(ChildLoopResult))
    /\ pend' = PendAfterExit(pend, CPid(i))
    /\ lock' = LockAfterExit(CPid(i))
    /\ UNCHANGED <<file, main>>

(***************************************************************************)
(* The signal handlers.                                                    *)
(***************************************************************************)
\* child_sig_handler with the two cases exchanged.
child_sig_handler_swapped(sig) == IF sig = UNLOCK THEN 1 ELSE 0

\* child_sig_handler: the exit status, by signal
child_sig_handler(sig) == IF sig = PARENT_TO THEN 1 ELSE 0

\* parent_sig_handler: the exit status, by signal
parent_sig_handler(sig) == IF sig = CHILD_OK THEN 0 ELSE 1

\* sig_handler: the role is read from the process's own child flag
sig_handler(isChild, sig) ==
    IF isChild THEN child_sig_handler(sig) ELSE parent_sig_handler(sig)

\* Whether the process has installed sig_handler: signal() is called by a
\* lock request before its fork, and the child inherits it.
HasHandler(p) ==
    \/ p \in ChildPids
    \/ p \in MainPids /\ main[InvOf(p)].pc \in {"fork", "loop", "ret"}

\* A pending signal is delivered to the first process of an invocation.
DeliverMain(i, sig) ==
    /\ Alive(PPid(i))
    /\ sig \in pend[PPid(i)]
    /\ st' = StAfterExit(PPid(i), IF HasHandler(PPid(i))
                                   THEN ExitCode(sig_handler(FALSE, sig))
                                   ELSE "killed")
    /\ main' = [main EXCEPT ![i] = MainDone(@)]
    /\ pend' = PendAfterExit(pend, PPid(i))
    /\ UNCHANGED <<file, lock, kid>>

\* A pending signal is delivered to the forked process.
DeliverChild(i, sig) ==
    /\ Alive(CPid(i))
    /\ sig \in pend[CPid(i)]
    /\ st' = StAfterExit(CPid(i), ExitCode(sig_handler(kid[i].child, sig)))
    /\ kid' = [kid EXCEPT ![i] = KidDone]
    /\ pend' = PendAfterExit(pend, CPid(i))
    /\ lock' = LockAfterExit(CPid(i))
    /\ UNCHANGED <<file, main>>

\* A pending signal is delivered to the script, which handles neither.
DeliverScript(sig) ==
    /\ Alive(ScriptPid)
    /\ sig \in pend[ScriptPid]
    /\ st' = StAfterExit(ScriptPid, "killed")
    /\ pend' = PendAfterExit(pend, ScriptPid)
    /\ UNCHANGED <<file, lock, main, kid>>

(***************************************************************************)
(* unlock_file.                                                            *)
(***************************************************************************)
\* open(filename, O_RDONLY)
UnlockOpen(i) ==
    /\ main[i].pc = "u_open"
    /\ Alive(PPid(i))
    /\ \/ /\ file # NoFile
          /\ main' = [main EXCEPT ![i].pc = "u_test"]
          /\ UNCHANGED <<st, pend>>
       \/ /\ main' = [main EXCEPT ![i] = MainDone(@)]
          /\ st' = StAfterExit(PPid(i), ExitCode(1))
          /\ pend' = PendAfterExit(pend, PPid(i))
    /\ UNCHANGED <<file, lock, kid>>

\* lockf(fd, F_TEST, 0): 0 when no other process holds the lock, else -1
lockf_test(p) == IF lock \in {NoPid, p} THEN 0 ELSE 0 - 1

UnlockTest(i) ==
    /\ main[i].pc = "u_test"
    /\ Alive(PPid(i))
    /\ main' = [main EXCEPT ![i].pc = "u_read", ![i].locked = lockf_test(PPid(i))]
    /\ UNCHANGED <<st, pend, file, lock, kid>>

\* the iteration budget of the poll loop
UnlockBudget(v, no_block, timeout) ==
    (IF v = 2 /\ no_block THEN 0 ELSE timeout) * TimeoutMult

\* read and strtol; with a pid, the budget is set for the loop
UnlockRead(i) ==
    /\ main[i].pc = "u_read"
    /\ Alive(PPid(i))
    /\ LET pid == ParsePid(file)
       IN  IF pid = 0
           THEN /\ main' = [main EXCEPT ![i] = MainDone(@)]
                /\ st' = StAfterExit(PPid(i), ExitCode(1))
                /\ pend' = PendAfterExit(pend, PPid(i))
           ELSE /\ main' = [main EXCEPT ![i].pc = "u_loop", ![i].pid = pid,
                               ![i].ver = 0,
                               ![i].timeout = UnlockBudget(main[i].ver,
                                                  main[i].no_block, main[i].timeout)]
                /\ UNCHANGED <<st, pend>>
    /\ UNCHANGED <<file, lock, kid>>

\* while (time++ < timeout || timeout == 0)
UnlockLoopCond(time, timeout) == time < timeout \/ timeout = 0

\* time++.  Without a budget (timeout 0) the counter has no bound and the
\* code tests it only against 1 and against timeout, so it is kept at 1.
TimeCap(timeout) == IF timeout = 0 THEN 1 ELSE timeout + 1
NextTime(time, timeout) == Min(time + 1, TimeCap(timeout))

\* One iteration: kill(pid, SIGUSR2); break when it fails or when the file
\* had tested as not locked; else usleep.
UnlockPoll(i) ==
    /\ main[i].pc = "u_loop"
    /\ Alive(PPid(i))
    /\ UnlockLoopCond(main[i].time, main[i].timeout)
    /\ LET sent == KillOK(PPid(i), main[i].pid)
       IN  /\ pend' = PendAfterKill(PPid(i), main[i].pid, SIGUSR2)
           /\ main' = [main EXCEPT
                  ![i].time = NextTime(@, main[i].timeout),
                  ![i].pc = IF ~sent \/ main[i].locked = 0 THEN "u_end" ELSE "u_loop"]
    /\ UNCHANGED <<st, file, lock, kid>>

\* The loop condition fails: the budget is spent.
UnlockExhaust(i) ==
    /\ main[i].pc = "u_loop"
    /\ Alive(PPid(i))
    /\ ~UnlockLoopCond(main[i].time, main[i].timeout)
    /\ main' = [main EXCEPT ![i].time = NextTime(@, main[i].timeout), ![i].pc = "u_end"]
    /\ UNCHANGED <<st, pend, file, lock, kid>>

\* UnlockResult with >= for ==.
UnlockResultGe(time, timeout) == IF time >= timeout THEN 1 ELSE 0

\* if (time == timeout) return 1; else return 0
UnlockResult(time, timeout) == IF time = timeout THEN 1 ELSE 0

UnlockReturn(i) ==
    /\ main[i].pc = "u_end"
    /\ Alive(PPid(i))
    /\ LET r == UnlockResult(main[i].time, main[i].timeout)
       IN  /\ main' = [main EXCEPT ![i] = MainDone(@)]
           /\ st' = StAfterExit(PPid(i), ExitCode(r))
    /\ pend' = PendAfterExit(pend, PPid(i))
    /\ UNCHANGED <<file, lock, kid>>

(***************************************************************************)
(* The specification.                                                      *)
(***************************************************************************)
\* The steps of the processes.
Step ==
    \/ ScriptExit
    \/ CompRelease
    \/ \E i \in Invs : MainArgs(i)
    \/ \E i \in Invs : Fork(i)
    \/ \E i \in Invs : ParentTick(i)
    \/ \E i \in Invs : ParentTimeout(i)
    \/ \E i \in Invs : ParentReturn(i)
    \/ \E i \in Invs : ChildSetFlag(i)
    \/ \E i \in Invs : ChildOpen(i)
    \/ \E i \in Invs : ChildLock(i)
    \/ \E i \in Invs : ChildTruncate(i)
    \/ \E i \in Invs : ChildWrite(i)
    \/ \E i \in Invs : ChildSignalOK(i)
    \/ \E i \in Invs : ChildProbe(i)
    \/ \E i \in Invs : ChildSleep(i)
    \/ \E i \in Invs : ChildReturn(i)
    \/ \E i \in Invs, sig \in Signals : DeliverMain(i, sig)
    \/ \E i \in Invs, sig \in Signals : DeliverChild(i, sig)
    \/ \E sig \in Signals : DeliverScript(sig)
    \/ \E i \in Invs : UnlockOpen(i)
    \/ \E i \in Invs : UnlockTest(i)
    \/ \E i \in Invs : UnlockRead(i)
    \/ \E i \in Invs : UnlockPoll(i)
    \/ \E i \in Invs : UnlockExhaust(i)
    \/ \E i \in Invs : UnlockReturn(i)

Next ==
    \/ \E i \in Invs, v \in Versions, u \in BOOLEAN, nb \in BOOLEAN, t \in TOpts :
          Exec(i, v, u, nb, t)
    \/ Step

Spec == Init /\ [][Next]_vars

NextRoundTrip ==
    \/ \E i \in Invs, v \in Versions, nb \in BOOLEAN, t \in TOpts :
          ExecRoundTrip(i, v, nb, t)
    \/ Step

RoundTripSpec == Init /\ [][NextRoundTrip]_vars

\* The scheduler runs a process that can run, and sleep(1) returns: while
\* some forked process can take a step of its idle loop or return from
\* child_loop, one of them does in the end.
ChildStep(i) == ChildProbe(i) \/ ChildSleep(i) \/ ChildReturn(i)

FairSpec == Spec /\ WF_vars(\E i \in Invs : ChildStep(i))

(***************************************************************************)
(* Words for the properties.                                               *)
(***************************************************************************)
\* The process ends in this step.
Ends(p) == st[p] = "run" /\ st'[p] # "run"
\* The process ends in this step by returning or by exit(), with a status.
Returns(p) == st[p] = "run" /\ st'[p] \in {"exit0", "exit1"}
\* Invocation i is a lock request past its option handling.
IsLockRun(i) == ~main[i].unlock /\ main[i].pc \in {"fork", "loop", "ret"}
\* The forked process of invocation i idles.
Idling(i) == Alive(CPid(i)) /\ kid[i].pc \in {"probe", "sleep"}

(***************************************************************************)
(* C1.  Whenever the Coordinator of a lock request ends with status 0, the *)
(* LockHolder it forked holds the lock and is alive at that moment; and    *)
(* the Coordinator that leaves its wait loop by the timeout ends with      *)
(* status 1.  (As the claim states it; the code returns 0 on timeout.)     *)
(***************************************************************************)
C1_ExitZeroMeansLockHeld ==
    [][\A i \in Invs :
          (IsLockRun(i) /\ Returns(PPid(i))) =>
              /\ st'[PPid(i)] = "exit0" => (lock' = CPid(i) /\ st'[CPid(i)] = "run")
              /\ main[i].pc = "ret" => st'[PPid(i)] = "exit1"]_vars

(***************************************************************************)
(* C2.  A Coordinator with timeout T > 0 whose LockHolder has not got the  *)
(* lock and has sent nothing leaves its loop after exactly T ticks,        *)
(* sends the LockHolder the timed-out signal, and then ends with failure   *)
(* status.  (As the claim states it; the code returns 0.)                  *)
(***************************************************************************)
C2_TimeoutAfterTTicksFails ==
    [][\A i \in Invs :
          /\ (IsLockRun(i) /\ main[i].pc = "loop" /\ main'[i].pc = "ret") =>
                 /\ main[i].timeout > 0
                 /\ main[i].time = main[i].timeout
                 /\ Alive(CPid(i)) => PARENT_TO \in pend'[CPid(i)]
          /\ (IsLockRun(i) /\ main[i].pc = "ret" /\ pend[PPid(i)] = {}
                  /\ lock # CPid(i) /\ Ends(PPid(i))) =>
                 st'[PPid(i)] = "exit1"]_vars

(***************************************************************************)
(* C3.  After a lock request's Coordinator has reported success (status    *)
(* 0), and for as long as the LockHolder it forked is alive, the whole     *)
(* content of the target file is the decimal text of that LockHolder's     *)
(* pid; and the pid is in the file when the success signal is sent.  (As   *)
(* the claim states it.)                                                   *)
(***************************************************************************)
C3_FileHoldsHolderPid ==
    \A i \in Invs :
        /\ (~main[i].unlock /\ st[PPid(i)] = "exit0" /\ Alive(CPid(i))) =>
               file = Dec(CPid(i))
        /\ (Alive(CPid(i)) /\ kid[i].pc \in {"sigok", "probe", "sleep"}) =>
               file = Dec(CPid(i))

(***************************************************************************)
(* C4.  An unlock of a file that tested as locked and that holds the pid   *)
(* of an idling LockHolder returns status 0, and that LockHolder is gone   *)
(* when it returns.  (As the claim states it.)                             *)
(***************************************************************************)
C4_UnlockEndsHolder ==
    [][\A i \in Invs :
          (/\ main[i].pc = "u_end"
           /\ main[i].locked # 0
           /\ main[i].pid \in ChildPids
           /\ kid[InvOf(main[i].pid)].pc \in {"probe", "sleep", "done"}
           /\ Returns(PPid(i))) =>
              (st'[PPid(i)] = "exit0" /\ ~Alive(main[i].pid))]_vars

(***************************************************************************)
(* C5.  An unlock with a timeout, of a file that tested as locked, returns *)
(* status 1 when its loop spent the whole iteration budget with every      *)
(* signal sent, and status 0 in every other outcome of the loop.           *)
(* (As the claim states it.)                                               *)
(***************************************************************************)
C5_TimeoutIffBudgetSpent ==
    [][\A i \in Invs :
          (/\ main[i].pc = "u_end"
           /\ main[i].locked # 0
           /\ main[i].timeout > 0
           /\ Returns(PPid(i))) =>
              (st'[PPid(i)] = "exit1" <=> main[i].time > main[i].timeout)]_vars

C7_RoundTrip ==
    [][\A i \in Invs :
          (/\ i > 2
           /\ ~main[i - 2].unlock /\ st[PPid(i - 2)] = "exit0"
           /\ main[i - 1].unlock /\ st[PPid(i - 1)] = "exit0"
           /\ main[i - 1].locked # 0 /\ main[i - 1].pid = CPid(i - 2)
           /\ ~main[i].unlock
           /\ Alive(CPid(i))
           /\ kid[i].pc = "lock") =>
              kid'[i].pc # "ret"]_vars

(***************************************************************************)
(* C8.  An unlock that read the pid of a process that does not exist ends  *)
(* its loop at the first signal attempt, which reaches no process, and     *)
(* returns status 0, whatever the timeout.                                 *)
(***************************************************************************)
C8_DeadPidUnlockSucceeds ==
    [][\A i \in Invs :
          /\ (/\ main[i].pc = "u_loop"
              /\ main[i].time = 0
              /\ ~Alive(main[i].pid)
              /\ main'[i] # main[i]) =>
                 /\ main'[i].pc \in {"u_end", "done"}
                 /\ main'[i].pc = "u_end" => main'[i].time = 1
                 /\ \A p \in Procs : pend'[p] \subseteq pend[p]
          /\ (main[i].pc = "u_end" /\ main[i].time = 1 /\ Ends(PPid(i))) =>
                 st'[PPid(i)] \in {"exit0", "killed"}]_vars

\* An unlock with a timeout, of a file locked by another process, whose
\* first signal went to a pid that names no process.
C8_Witness ==
    \E i \in Invs :
        /\ main[i].pc = "u_end"
        /\ main[i].time = 1
        /\ main[i].timeout > 0
        /\ main[i].locked # 0
        /\ ~Alive(main[i].pid)

(***************************************************************************)
(* C9.  A non-blocking lock request on a file locked by another process:   *)
(* its Coordinator ends with status 1, by the LockHolder's failure signal  *)
(* delivered in the wait loop, before any timeout tick.  (As the claim     *)
(* states it.)                                                             *)
(***************************************************************************)
C9_NonBlockingFailsBySignal ==
    [][\A i \in Invs :
          (/\ main[i].pc \notin {"none", "done"}
           /\ ~main[i].unlock
           /\ main[i].no_block
           /\ lock \notin {NoPid, CPid(i)}
           /\ kid[i].pc \in {"none", "start", "open", "lock", "ret"}
           /\ Ends(PPid(i))) =>
              /\ main[i].pc = "loop"
              /\ main[i].time = 0
              /\ CHILD_FAIL \in pend[PPid(i)]
              /\ st'[PPid(i)] = "exit1"]_vars

(***************************************************************************)
(* C10.  main rejects a request (status 1, before any fork, open or        *)
(* signal) exactly when non-blocking mode comes with an explicit timeout;  *)
(* every other request goes on to the lock or the unlock.  (As the claim   *)
(* states it.)                                                             *)
(***************************************************************************)
C10_RejectedIffConflict ==
    [][\A i \in Invs :
          (main[i].pc = "args" /\ main'[i].pc # "args" /\ st'[PPid(i)] # "killed") =>
              IF main[i].no_block /\ main[i].argv.given
              THEN st'[PPid(i)] = "exit1" /\ UNCHANGED <<pend, file, lock, kid>>
              ELSE main'[i].pc = IF main[i].unlock THEN "u_open" ELSE "fork"]_vars

(***************************************************************************)
(* Words for the signal claims.                                            *)
(***************************************************************************)
\* The forked process of invocation i, in the child role (its flag is set)
\* and not at its return, ends in this step: by the delivery of a signal.
ChildRoleSignalled(i) ==
    /\ Alive(CPid(i))
    /\ kid[i].child
    /\ kid[i].pc # "ret"
    /\ Ends(CPid(i))

(***************************************************************************)
(* C11.  The value the LockHolder sends for locked-OK (signal A) is the    *)
(* value of parent-timed-out, and a process in the child role that gets    *)
(* it exits with failure status; the value it sends for locked-FAIL        *)
(* (signal B) is the value of unlock, and a process in the child role      *)
(* that gets it exits with success status.                                 *)
(***************************************************************************)
C11_SignalMapping ==
    [][/\ CHILD_OK = PARENT_TO
       /\ CHILD_FAIL = UNLOCK
       /\ \A i \in Invs :
             ChildRoleSignalled(i) =>
                 /\ pend[CPid(i)] = {CHILD_OK} => st'[CPid(i)] = "exit1"
                 /\ pend[CPid(i)] = {CHILD_FAIL} => st'[CPid(i)] = "exit0"]_vars

\* C11 as the claim states it: signal A means unlock (exit with success) in
\* the child role, signal B means parent-timed-out (exit with failure).
C11_AsStated ==
    [][\A i \in Invs :
          ChildRoleSignalled(i) =>
              /\ pend[CPid(i)] = {CHILD_OK} => st'[CPid(i)] = "exit0"
              /\ pend[CPid(i)] = {CHILD_FAIL} => st'[CPid(i)] = "exit1"]_vars

\* A Coordinator has timed out and sent signal A to its LockHolder, which
\* has ended with failure status having sent nothing: it ended in its
\* handler, in the child role.
C11_Witness ==
    \E i \in Invs :
        /\ main[i].pc = "ret"
        /\ Alive(PPid(i))
        /\ pend[PPid(i)] = {}
        /\ st[CPid(i)] = "exit1"

(***************************************************************************)
(* C12.  A LockHolder whose probe has found the script gone leaves its     *)
(* idle loop and ends with status 0.  (As the claim states it; child_loop  *)
(* returns 1.)                                                             *)
(***************************************************************************)
C12_ScriptGoneExitsZero ==
    [][\A i \in Invs :
          /\ (/\ Alive(CPid(i))
              /\ kid[i].pc = "probe"
              /\ ~ProbeOK(kid[i].script_pid)
              /\ kid'[i].pc \notin {"probe", "done"}) =>
                 kid'[i].pc = "ret"
          /\ (/\ Alive(CPid(i))
              /\ kid[i].pc = "ret"
              /\ lock = CPid(i)
              /\ pend[CPid(i)] = {}
              /\ Ends(CPid(i))) =>
                 st'[CPid(i)] = "exit0"]_vars

(***************************************************************************)
(* C13.  A Coordinator that gets a LockHolder's signal while it is still   *)
(* in its wait loop ends in the handler with the status of that signal,    *)
(* and the timed-out signal is not sent; and a Coordinator that has left   *)
(* the loop by the timeout ends with the status parent_loop returns,       *)
(* whatever signal arrives after that.  (As the claim states it.)          *)
(***************************************************************************)
C13_OneKindOfExit ==
    [][\A i \in Invs :
          /\ (/\ main[i].pc = "loop"
              /\ Ends(PPid(i))) =>
                 /\ pend[PPid(i)] # {}
                 /\ \A sig \in Signals :
                       pend[PPid(i)] = {sig} =>
                           st'[PPid(i)] = ExitCode(parent_sig_handler(sig))
                 /\ \A p \in Procs : pend'[p] \subseteq pend[p]
          /\ (/\ main[i].pc = "ret"
              /\ Ends(PPid(i))) =>
                 st'[PPid(i)] = ExitCode(ParentLoopResult)]_vars

(***************************************************************************)
(* C14.  A Coordinator with timeout 0 stays in its wait loop: it never     *)
(* takes the timeout branch, no signal comes to its LockHolder while it    *)
(* waits, and it ends only in its handler, with the status of a signal     *)
(* (locked-OK, locked-FAIL) that was pending for it.                       *)
(***************************************************************************)
C14_ZeroWaitsForever ==
    [][\A i \in Invs :
          (main[i].pc = "loop" /\ main[i].timeout = 0) =>
              /\ main'[i].pc \in {"loop", "done"}
              /\ main'[i].pc = "loop" => main'[i].timeout = 0
              /\ main[i].cpid = CPid(i) => pend'[CPid(i)] \subseteq pend[CPid(i)]
              /\ main'[i].pc = "done" =>
                    \E sig \in pend[PPid(i)] :
                        st'[PPid(i)] = ExitCode(parent_sig_handler(sig))]_vars

\* A Coordinator without a timeout still waits, the script gone, while its
\* LockHolder is blocked on a lock that another process holds.
C14_Witness ==
    \E i \in Invs :
        /\ main[i].pc = "loop"
        /\ main[i].timeout = 0
        /\ Alive(PPid(i))
        /\ kid[i].pc = "lock"
        /\ lock = CompPid
        /\ ~Alive(ScriptPid)

(***************************************************************************)
(* C15.  In the unlock poll loop a signal that cannot be sent, on the      *)
(* first, a later or the last iteration the budget allows, ends the loop   *)
(* at once, and the unlock then returns status 0.  (As the claim states    *)
(* it.)                                                                    *)
(***************************************************************************)
C15_SendFailureIsSuccess ==
    [][\A i \in Invs :
          /\ (/\ main[i].pc = "u_loop"
              /\ UnlockLoopCond(main[i].time, main[i].timeout)
              /\ ~KillOK(PPid(i), main[i].pid)
              /\ main'[i] # main[i]) =>
                 main'[i].pc \in {"u_end", "done"}
          /\ (/\ main[i].pc = "u_end"
              /\ main[i].locked # 0
              /\ main[i].timeout = 0 \/ main[i].time <= main[i].timeout
              /\ Returns(PPid(i))) =>
                 st'[PPid(i)] = "exit0"]_vars

(***************************************************************************)
(* C16.  A LockHolder whose open fails, or whose attempt to lock fails     *)
(* (a file locked by another process, in non-blocking mode), sends the     *)
(* failure signal to the Coordinator and not the success signal, leaves    *)
(* the file and the lock as they are, and then ends with failure status:   *)
(* it does not try again, write, or idle.                                  *)
(***************************************************************************)
C16_FailureSignalsAndEnds ==
    [][\A i \in Invs :
          /\ (/\ Alive(CPid(i))
              /\ kid[i].pc \in {"open", "lock"}
              /\ kid'[i].pc = "ret") =>
                 /\ Alive(kid[i].ppid) =>
                        pend'[kid[i].ppid] = pend[kid[i].ppid] \cup {CHILD_FAIL}
                 /\ \A p \in Procs \ {kid[i].ppid} : pend'[p] = pend[p]
                 /\ file' = file
                 /\ lock' = lock
          /\ (/\ Alive(CPid(i))
              /\ kid[i].pc = "ret"
              /\ lock # CPid(i)
              /\ kid'[i] # kid[i]) =>
                 /\ kid'[i].pc = "done"
                 /\ st'[CPid(i)] = "exit1"
                 /\ file' = file
                 /\ \A p \in Procs : pend'[p] \subseteq pend[p]]_vars

\* A non-blocking LockHolder has found the file, which holds a pid, locked
\* by another process; it has signalled the failure and is about to return.
C16_Witness ==
    \E i \in Invs :
        /\ Alive(CPid(i))
        /\ kid[i].pc = "ret"
        /\ main[i].no_block
        /\ lock \notin {NoPid, CPid(i)}
        /\ pend[PPid(i)] = {CHILD_FAIL}
        /\ Len(file) > 1

(***************************************************************************)
(* unlock_file on any file: the script only unlocks, and the file holds    *)
(* what somebody has put there.                                            *)
(***************************************************************************)
\* File contents: something before the number, a number, something after.
ParseTexts ==
    {p \o d \o x :
        p \in {<<>>, <<" ">>, <<"-">>, <<"0", "0", "0", "0", "0", "0", "0", "0">>},
        d \in {<<>>, <<"0">>, Dec(InitPid), Dec(ScriptPid), Dec(StalePid)},
        x \in {<<>>, <<"\n">>, <<"x">>, <<"\n", "x">>, <<"\n", "\n">>}}

InitParse ==
    /\ st = [p \in Procs |-> IF p = ScriptPid THEN "run" ELSE "none"]
    /\ pend = [p \in Procs |-> {}]
    /\ file \in ParseTexts \cup {NoFile}
    /\ lock \in {NoPid, CompPid}
    /\ lock = CompPid => file # NoFile
    /\ main = [i \in Invs |-> NoMain]
    /\ kid = [i \in Invs |-> NoKid]

NextParse ==
    \/ \E i \in Invs, v \in Versions, nb \in BOOLEAN, t \in TOpts :
          Exec(i, v, TRUE, nb, t)
    \/ ScriptExit
    \/ CompRelease
    \/ \E i \in Invs : MainArgs(i)
    \/ \E sig \in Signals : DeliverScript(sig)
    \/ \E i \in Invs : UnlockOpen(i)
    \/ \E i \in Invs : UnlockTest(i)
    \/ \E i \in Invs : UnlockRead(i)
    \/ \E i \in Invs : UnlockPoll(i)
    \/ \E i \in Invs : UnlockExhaust(i)
    \/ \E i \in Invs : UnlockReturn(i)

ParseSpec == InitParse /\ [][NextParse]_vars

\* The contents that C17 lets through: a number above 0 (as strtol reads
\* the whole of the data), then the end of the data or one newline and the
\* end of the data.
IsPidText(content) ==
    LET r == strtol(content)
    IN  /\ content # NoFile
        /\ r.val > 0
        /\ \/ r.end = Len(content) + 1
           \/ r.end = Len(content) /\ content[r.end] = "\n"

(***************************************************************************)
(* C17.  An unlock that reads a file whose data is empty, is not a number  *)
(* above 0, or goes on after the number with anything but one newline,     *)
(* fails with status 1 at that point, and sends no signal.  (As the claim  *)
(* states it.)                                                             *)
(***************************************************************************)
C17_BadPidTextIsFatal ==
    [][\A i \in Invs :
          (/\ main[i].pc = "u_read"
           /\ ~IsPidText(file)
           /\ main'[i] # main[i]) =>
              /\ main'[i].pc = "done"
              /\ st'[PPid(i)] = "exit1"]_vars

(***************************************************************************)
(* C18.  A signal delivered to the forked process, at any point after the  *)
(* fork, ends it with the status child_sig_handler gives that signal       *)
(* (timed-out: 1, unlock: 0); a signal delivered to the Coordinator in its *)
(* wait loop ends it with the status parent_sig_handler gives it.  (As     *)
(* the claim states it; the flag is set by child_loop's first statement.)  *)
(***************************************************************************)
C18_RoleOfTheProcess ==
    [][\A i \in Invs, sig \in Signals :
          /\ (/\ Alive(CPid(i))
              /\ kid[i].pc # "ret"
              /\ pend[CPid(i)] = {sig}
              /\ Ends(CPid(i))) =>
                 st'[CPid(i)] = ExitCode(child_sig_handler(sig))
          /\ (/\ main[i].pc = "loop"
              /\ pend[PPid(i)] = {sig}
              /\ Ends(PPid(i))) =>
                 st'[PPid(i)] = ExitCode(parent_sig_handler(sig))]_vars

(***************************************************************************)
(* C19.  A step of a Coordinator, from its fork to its end, brings a       *)
(* signal to no process but the LockHolder it forked; where the fork has   *)
(* failed, to no process at all.  (As the claim states it.)                *)
(***************************************************************************)
C19_SignalsOnlyItsHolder ==
    [][\A i \in Invs :
          (/\ main[i].pc \in {"fork", "loop", "ret"}
           /\ main'[i] # main[i]) =>
              \A p \in Procs :
                  pend'[p] \subseteq pend[p] \/ (p = CPid(i) /\ kid[i].pc # "none")]_vars

====
